---- MODULE Spec2Model ----
(***************************************************************************)
(* ScriptSense (live.py): the Streamlit script as a state machine.         *)
(*                                                                         *)
(* The script is re-executed top to bottom on every user event (one        *)
(* "refresh cycle").  st.session_state survives between executions, and so *)
(* do the values of the widgets that were rendered.  One execution is      *)
(* modelled as the sequence of its blocks, in source order:                *)
(*   toggle (110-114) -> camera (117-129) -> upload (132-140) ->           *)
(*   clear (143-149) -> analysis (153-165) -> followup (168-187) -> done   *)
(* st.rerun() (126, 149) abandons the execution and starts a new one with  *)
(* the buttons released.                                                   *)
(***************************************************************************)
EXTENDS Integers, FiniteSets, Sequences, TLC

\* ---------------------------------------------------------------- bounds
\* languages offered by the selectbox (the source lists 10; 1 is the default)
NumLangs == 2
\* distinct decodable files the user may upload
NumFiles == 2
\* distinct decodable photos the camera may deliver
NumPhotos == 1
\* distinct non-empty follow-up questions
NumQuestions == 1

Langs == 1..NumLangs
\* file NumFiles+1 and photo NumPhotos+1 are the ones Image.open rejects
CorruptFile == NumFiles + 1
CorruptPhoto == NumPhotos + 1
Files == 1..CorruptFile
Photos == 1..CorruptPhoto

\* ---------------------------------------------------------------- values
\* Python's None for the image slot
NoImage == [src |-> "none", id |-> 0]
\* the PIL image Image.open returns for a source and a file
Bitmap(src, id) == [src |-> src, id |-> id]
\* Python's None for the analysis slot (also what the wrappers return on error)
NoResult == [kind |-> "none", img |-> NoImage, lang |-> 0]
\* the string "Analysis failed. Please try a different image or check logs."
Placeholder == [kind |-> "failed", img |-> NoImage, lang |-> 0]
\* response.text of the vision model for (image, language)
Text(img, lang) == [kind |-> "text", img |-> img, lang |-> lang]

\* Image.open succeeds (TRUE) or raises (FALSE)
DecodableFile(f) == f \in 1..NumFiles
DecodablePhoto(p) == p \in 1..NumPhotos

\* process_image_with_gemini: the text, or None when generate_content raises.
\* Line 159 tests the truth of the reply, so an empty text counts as a failure
\* too; both are the outcome ok = FALSE.
process_image_with_gemini(pil_image, lang_opt, ok) ==
    IF ok THEN Text(pil_image, lang_opt) ELSE NoResult

\* get_followup_response: an answer, or None when generate_content raises
get_followup_response(previous_text, user_question, ok) ==
    IF ok THEN "answered" ELSE "failed"

VARIABLES
    captured_image_pil,      \* st.session_state.captured_image_pil
    analysis_result,         \* st.session_state.analysis_result
    show_camera,             \* st.session_state.show_camera
    previous_language,       \* st.session_state.previous_language (0 = None)
    language_option,         \* value of the selectbox
    uploaded_file,           \* value of the file uploader (0 = None)
    camera_img_file_buffer,  \* value of the camera widget (0 = None)
    user_q,                  \* value of the question input (0 = empty)
    button,                  \* the button whose click started this execution
    camera_rendered,         \* st.camera_input was rendered by the last execution
    pc,                      \* position of the script
    obs,                     \* what the current refresh cycle has done so far
    last                     \* what the previous refresh cycle did

vars == <<captured_image_pil, analysis_result, show_camera, previous_language,
          language_option, uploaded_file, camera_img_file_buffer, user_q,
          button, camera_rendered, pc, obs, last>>

session == <<captured_image_pil, analysis_result, show_camera, previous_language>>
widgets == <<language_option, uploaded_file, camera_img_file_buffer, user_q>>

\* the record of one refresh cycle: collaborator calls and operations executed
NoArgs == [img |-> NoImage, lang |-> 0]
FreshObs ==
    [calls |-> 0, analyzed |-> NoArgs, asks |-> 0, asked |-> NoResult,
     answer |-> "none", submitted |-> FALSE, cleared |-> FALSE,
     ensured |-> 0, both |-> FALSE, reruns |-> 0, event |-> "load",
     outcome |-> "none"]
\* before the first cycle there is no previous one
NoLast == [ensured |-> 0, ok |-> FALSE, calls |-> 0, outcome |-> "none"]

\* lines 49-56, and the default widget values on the first page load
Init ==
    /\ captured_image_pil = NoImage
    /\ analysis_result = NoResult
    /\ show_camera = FALSE
    /\ previous_language = 0
    /\ language_option = 1
    /\ uploaded_file = 0
    /\ camera_img_file_buffer = 0
    /\ user_q = 0
    /\ button = "none"
    /\ camera_rendered = FALSE
    /\ pc = "toggle"
    /\ obs = FreshObs
    /\ last = NoLast

\* ------------------------------------------------------------ user events
\* Streamlit starts an execution of the script for every widget interaction.
\* The cycle that ends is summarised in last; obs starts empty.
StartCycle(ev) ==
    /\ pc = "idle"
    /\ pc' = "toggle"
    /\ last' = [ensured |-> obs.ensured,
                ok |-> (analysis_result.kind = "text"),
                calls |-> obs.calls,
                outcome |-> obs.outcome]
    /\ obs' = [FreshObs EXCEPT !.event = ev]
    /\ UNCHANGED <<session, camera_rendered>>

\* the selectbox of lines 100-104
SelectLanguage ==
    \E l \in Langs :
        /\ l # language_option
        /\ StartCycle("language")
        /\ language_option' = l
        /\ button' = "none"
        /\ UNCHANGED <<uploaded_file, camera_img_file_buffer, user_q>>

\* the file uploader of line 107: a file is chosen, or replaces the present one
UploadFile ==
    \E f \in Files :
        /\ f # uploaded_file
        /\ StartCycle("upload")
        /\ uploaded_file' = f
        /\ button' = "none"
        /\ UNCHANGED <<language_option, camera_img_file_buffer, user_q>>

\* the file uploader of line 107: the user removes the file
RemoveFile ==
    /\ uploaded_file # 0
    /\ StartCycle("remove")
    /\ uploaded_file' = 0
    /\ button' = "none"
    /\ UNCHANGED <<language_option, camera_img_file_buffer, user_q>>

\* the button of line 110
ClickActivateCamera ==
    /\ StartCycle("camera_button")
    /\ button' = "camera"
    /\ UNCHANGED widgets

\* the camera widget of line 119, usable when the last execution rendered it
TakePhoto ==
    \E p \in Photos :
        /\ camera_rendered
        /\ p # camera_img_file_buffer
        /\ StartCycle("photo")
        /\ camera_img_file_buffer' = p
        /\ button' = "none"
        /\ UNCHANGED <<language_option, uploaded_file, user_q>>

\* the button of line 145, rendered when line 143 saw an image
ClickClear ==
    /\ captured_image_pil # NoImage
    /\ StartCycle("clear_button")
    /\ button' = "clear"
    /\ UNCHANGED widgets

\* the text input of line 180, rendered when line 168 saw a result
TypeQuestion ==
    \E q \in 0..NumQuestions :
        /\ captured_image_pil # NoImage
        /\ analysis_result # NoResult
        /\ q # user_q
        /\ StartCycle("question")
        /\ user_q' = q
        /\ button' = "none"
        /\ UNCHANGED <<language_option, uploaded_file, camera_img_file_buffer>>

\* the button of line 181, rendered when the question is not empty
ClickGetAnswer ==
    /\ captured_image_pil # NoImage
    /\ analysis_result # NoResult
    /\ user_q # 0
    /\ StartCycle("answer_button")
    /\ button' = "answer"
    /\ UNCHANGED widgets

\* the text input of line 180 and the button of line 181 in one interaction:
\* the edit of the question is committed when the input loses the focus to the
\* button, and Streamlit merges the two widget updates into one execution
EditQuestionAndClick ==
    \E q \in 0..NumQuestions :
        /\ captured_image_pil # NoImage
        /\ analysis_result # NoResult
        /\ user_q # 0
        /\ q # user_q
        /\ StartCycle("edit_answer_button")
        /\ user_q' = q
        /\ button' = "answer"
        /\ UNCHANGED <<language_option, uploaded_file, camera_img_file_buffer>>

\* a rerun that leaves the clicked button pressed
RerunKeepsButton ==
    /\ pc' = "toggle"
    /\ button' = button

\* st.rerun(): the execution is abandoned, the script starts again with the
\* session state as it is and every button released
Rerun ==
    /\ pc' = "toggle"
    /\ button' = "none"

\* ---------------------------------------------------------- script blocks
\* a toggle that never resets the input
ToggleNeverClears(new_show_camera) == FALSE

\* line 112: toggling clears the input when the camera was just turned off
ToggleClearsInput(new_show_camera) == ~new_show_camera

\* lines 110-114: toggleCamera
ToggleCamera ==
    /\ pc = "toggle"
    /\ pc' = "camera"
    /\ IF button = "camera"
       THEN /\ show_camera' = ~show_camera
            /\ IF ToggleClearsInput(~show_camera)
               THEN /\ captured_image_pil' = NoImage
                    /\ analysis_result' = NoResult
               ELSE UNCHANGED <<captured_image_pil, analysis_result>>
       ELSE UNCHANGED <<captured_image_pil, analysis_result, show_camera>>
    /\ UNCHANGED <<previous_language, widgets, button, camera_rendered, obs, last>>

\* a capture that keeps the analysis of the previous image
ResultKeptAfterCapture(old) == old

\* line 124: the analysis slot after a successful camera capture
ResultAfterCapture(old) == NoResult

\* lines 117-129: the camera block; submitImage(camera, bitmap) on a capture
CameraInput ==
    /\ pc = "camera"
    /\ camera_rendered' = show_camera
    /\ IF show_camera /\ camera_img_file_buffer # 0
       THEN IF DecodablePhoto(camera_img_file_buffer)
            THEN /\ captured_image_pil' = Bitmap("camera", camera_img_file_buffer)
                 /\ analysis_result' = ResultAfterCapture(analysis_result)
                 /\ show_camera' = FALSE
                 /\ Rerun
                 /\ obs' = [obs EXCEPT !.submitted = TRUE,
                                       !.both = @ \/ (uploaded_file # 0),
                                       !.reruns = @ + 1]
            ELSE /\ captured_image_pil' = NoImage
                 /\ pc' = "upload"
                 /\ obs' = [obs EXCEPT !.both = @ \/ (uploaded_file # 0)]
                 /\ UNCHANGED <<analysis_result, show_camera, button>>
       ELSE /\ pc' = "upload"
            /\ UNCHANGED <<captured_image_pil, analysis_result, show_camera,
                           button, obs>>
    /\ UNCHANGED <<previous_language, widgets, last>>

\* an upload that keeps the analysis of the previous image
ResultKeptAfterUpload(old) == old

\* line 136: the analysis slot after a successful upload
ResultAfterUpload(old) == NoResult

\* an upload block that yields to an image already in the session
UploadOnlyWhenEmpty(file, image) == file # 0 /\ image = NoImage

\* line 132: the upload block runs whenever the uploader holds a file,
\* whatever image the session holds
UploadPresent(file, image) == file # 0

\* lines 132-140: the upload block; submitImage(upload, bitmap) when it decodes
ProcessUpload ==
    /\ pc = "upload"
    /\ pc' = "clear"
    /\ IF UploadPresent(uploaded_file, captured_image_pil)
       THEN IF DecodableFile(uploaded_file)
            THEN /\ captured_image_pil' = Bitmap("upload", uploaded_file)
                 /\ analysis_result' = ResultAfterUpload(analysis_result)
                 /\ show_camera' = FALSE
                 /\ obs' = [obs EXCEPT !.submitted = TRUE]
            ELSE /\ captured_image_pil' = NoImage
                 /\ UNCHANGED <<analysis_result, show_camera, obs>>
       ELSE UNCHANGED <<captured_image_pil, analysis_result, show_camera, obs>>
    /\ UNCHANGED <<previous_language, widgets, button, camera_rendered, last>>

\* a clear that leaves the analysis in place
ResultKeptAfterClear(old) == old

\* line 147: the analysis slot after the clear button
ResultAfterClear(old) == NoResult

\* lines 143-149: clearImage, when the button of line 145 was clicked
ClearImage ==
    /\ pc = "clear"
    /\ IF captured_image_pil # NoImage /\ button = "clear"
       THEN /\ captured_image_pil' = NoImage
            /\ analysis_result' = ResultAfterClear(analysis_result)
            /\ show_camera' = FALSE
            /\ Rerun
            /\ obs' = [obs EXCEPT !.cleared = TRUE, !.reruns = @ + 1]
       ELSE /\ pc' = "analysis"
            /\ UNCHANGED <<captured_image_pil, analysis_result, show_camera,
                           button, obs>>
    /\ UNCHANGED <<previous_language, widgets, camera_rendered, last>>

\* a decision that analyses on every execution
NeedsAnalysisAlways(result, language_changed) == TRUE

\* a decision that ignores the language
NeedsAnalysisIgnoresLanguage(result, language_changed) == result = NoResult

\* line 156: whether the image is analysed in this execution
NeedsAnalysis(result, language_changed) ==
    result = NoResult \/ language_changed

\* a success that forgets to store the language
LanguageNotStored(previous, language) == previous

\* line 161: the stored language after a successful analysis
LanguageAfterSuccess(previous, language) == language

\* a failure that always keeps what was stored
ResultKeptAfterFailure(old, language_changed) == old

\* a failure that always stores the placeholder
PlaceholderAfterFailure(old, language_changed) == Placeholder

\* lines 162-165: the analysis slot after a failed analysis
ResultAfterFailure(old, language_changed) ==
    IF language_changed THEN Placeholder ELSE old

\* lines 153-165: ensureAnalysis(language_option)
EnsureAnalysis ==
    /\ pc = "analysis"
    /\ pc' = "followup"
    /\ IF captured_image_pil # NoImage
       THEN LET language_changed == (previous_language # language_option) IN
            IF NeedsAnalysis(analysis_result, language_changed)
            THEN \E ok \in BOOLEAN :
                   LET analysis == process_image_with_gemini(
                                       captured_image_pil, language_option, ok) IN
                   /\ IF analysis # NoResult
                      THEN /\ analysis_result' = analysis
                           /\ previous_language' =
                                LanguageAfterSuccess(previous_language, language_option)
                      ELSE /\ analysis_result' =
                                ResultAfterFailure(analysis_result, language_changed)
                           /\ UNCHANGED previous_language
                   /\ obs' = [obs EXCEPT !.calls = @ + 1,
                                         !.analyzed = [img |-> captured_image_pil,
                                                       lang |-> language_option],
                                         !.ensured = language_option,
                                         !.outcome = IF analysis # NoResult
                                                     THEN "text" ELSE "failed"]
            ELSE /\ obs' = [obs EXCEPT !.ensured = language_option]
                 /\ UNCHANGED <<analysis_result, previous_language>>
       ELSE UNCHANGED <<analysis_result, previous_language, obs>>
    /\ UNCHANGED <<captured_image_pil, show_camera, widgets, button,
                   camera_rendered, last>>

\* a follow-up whose failure wipes the analysis
ResultLostOnFailedFollowUp(old, followup_text) ==
    IF followup_text = "failed" THEN NoResult ELSE old

\* lines 183-187: the answer is displayed, the analysis slot is not assigned
ResultAfterFollowUp(old, followup_text) == old

\* a follow-up that is sent whatever the question holds
FollowUpOnClickAlone(question, clicked) == clicked

\* line 181: the button is evaluated only for a non-empty question
FollowUpRequested(question, clicked) == question # 0 /\ clicked

\* line 168: the follow-up section is shown for any non-empty result string
FollowUpShown(result) == result # NoResult

\* lines 168-187: askFollowUp(user_q), when the button of line 181 was clicked
AskFollowUp ==
    /\ pc = "followup"
    /\ pc' = "done"
    /\ IF /\ captured_image_pil # NoImage
          /\ FollowUpShown(analysis_result)
          /\ FollowUpRequested(user_q, button = "answer")
       THEN \E ok \in BOOLEAN :
              LET followup_text ==
                      get_followup_response(analysis_result, user_q, ok) IN
              /\ obs' = [obs EXCEPT !.asks = @ + 1,
                                    !.asked = analysis_result,
                                    !.answer = followup_text]
              /\ analysis_result' =
                    ResultAfterFollowUp(analysis_result, followup_text)
       ELSE UNCHANGED <<obs, analysis_result>>
    /\ UNCHANGED <<captured_image_pil, show_camera, previous_language, widgets,
                   button, camera_rendered, last>>

\* the end of an execution that ran to the last line: Streamlit releases the
\* buttons and forgets the value of every widget the execution did not render
\* (the camera of line 119, the question input of line 180)
EndRun ==
    /\ pc = "done"
    /\ pc' = "idle"
    /\ button' = "none"
    /\ camera_img_file_buffer' =
         IF camera_rendered THEN camera_img_file_buffer ELSE 0
    /\ user_q' =
         IF captured_image_pil # NoImage /\ analysis_result # NoResult
         THEN user_q ELSE 0
    /\ UNCHANGED <<session, language_option, uploaded_file, camera_rendered,
                   obs, last>>

Next ==
    \/ SelectLanguage
    \/ UploadFile
    \/ RemoveFile
    \/ ClickActivateCamera
    \/ TakePhoto
    \/ ClickClear
    \/ TypeQuestion
    \/ ClickGetAnswer
    \/ EditQuestionAndClick
    \/ ToggleCamera
    \/ CameraInput
    \/ ProcessUpload
    \/ ClearImage
    \/ EnsureAnalysis
    \/ AskFollowUp
    \/ EndRun

Spec == Init /\ [][Next]_vars

\* the blocks of one execution: Streamlit's script runner executes the script
\* to its end (or to st.rerun()) once started; the calls to the model are
\* blocking and return
RunScript ==
    \/ ToggleCamera
    \/ CameraInput
    \/ ProcessUpload
    \/ ClearImage
    \/ EnsureAnalysis
    \/ AskFollowUp
    \/ EndRun

\* Spec with the script runner's progress: a started execution keeps running
LiveSpec == Spec /\ WF_vars(RunScript)

\* ------------------------------------------------------------------ claims
\* the two places that execute submitImage: a capture or an upload that decodes
CaptureDecodes ==
    /\ pc = "camera"
    /\ show_camera
    /\ camera_img_file_buffer # 0
    /\ DecodablePhoto(camera_img_file_buffer)
UploadDecodes ==
    /\ pc = "upload"
    /\ uploaded_file # 0
    /\ DecodableFile(uploaded_file)
\* the clear button is evaluated and was clicked
ClearClicked ==
    /\ pc = "clear"
    /\ captured_image_pil # NoImage
    /\ button = "clear"
\* this cycle and the previous one both evaluated ensureAnalysis with the same
\* language, and this cycle executed neither submitImage nor clearImage
SameLanguageTwice ==
    /\ last.ensured # 0
    /\ obs.ensured = last.ensured
    /\ ~obs.submitted
    /\ ~obs.cleared

\* C1 (as stated): ensureAnalysis(L) in two consecutive cycles with the same L
\* and no submitImage or clearImage between them calls analyze at most once
\* over the two cycles, and the second evaluation makes no call.
C1_AtMostOneCallOverTwoCycles ==
    SameLanguageTwice => (obs.calls = 0 /\ last.calls + obs.calls <= 1)

\* C1 (amended): the same, when the first cycle ended with an analysis text in
\* the session: the second evaluation is a cache hit that makes no call.
C1_CacheHitAfterSuccess ==
    (SameLanguageTwice /\ last.ok) => (obs.calls = 0 /\ last.calls <= 1)

C1_Witness ==
    /\ pc = "idle"
    /\ SameLanguageTwice
    /\ last.ok
    /\ last.calls = 1
    /\ obs.calls = 0
    /\ analysis_result = Text(captured_image_pil, language_option)

\* C2: with an analysis text stored for L1 and the selectbox at L2 # L1,
\* ensureAnalysis calls analyze exactly once, for L2, and on success the new
\* text replaces the old one and the stored language becomes L2.
C2_LanguageChangeRecomputesOnce ==
    [][(/\ pc = "analysis"
        /\ captured_image_pil # NoImage
        /\ analysis_result.kind = "text"
        /\ previous_language # language_option)
       => (/\ obs.calls = 0
           /\ obs'.calls = 1
           /\ obs'.analyzed = [img |-> captured_image_pil, lang |-> language_option]
           /\ (analysis_result'.kind = "text" =>
                 /\ analysis_result' = Text(captured_image_pil, language_option)
                 /\ previous_language' = language_option))]_vars

C2_Witness ==
    /\ pc = "followup"
    /\ obs.event = "language"
    /\ last.ok
    /\ ~obs.submitted
    /\ obs.calls = 1
    /\ analysis_result = Text(captured_image_pil, language_option)
    /\ previous_language = language_option

\* C3 (as stated): after clearImage the image, the analysis result and the
\* analysis language are all absent and the camera is off.
C3_ClearResetsLanguageToo ==
    [][ClearClicked
       => (/\ captured_image_pil' = NoImage
           /\ analysis_result' = NoResult
           /\ previous_language' = 0
           /\ ~show_camera')]_vars

\* C3 (amended): after clearImage the image and the analysis result are absent
\* and the camera is off; the stored analysis language keeps its value.
C3_ClearResetsImageAndResult ==
    [][ClearClicked
       => (/\ captured_image_pil' = NoImage
           /\ analysis_result' = NoResult
           /\ previous_language' = previous_language
           /\ ~show_camera')]_vars

C3_Witness ==
    /\ pc = "toggle"
    /\ obs.cleared
    /\ obs.reruns = 1
    /\ ~obs.submitted
    /\ last.ok
    /\ captured_image_pil = NoImage
    /\ analysis_result = NoResult
    /\ previous_language # 0
    /\ ~show_camera

\* C4 (as stated): submitImage with a decodable image leaves the image equal
\* to the submitted bitmap and the analysis result and the analysis language
\* absent; a camera capture also leaves the camera off.
C4_SubmitResetsLanguageToo ==
    [][/\ CaptureDecodes
          => (/\ captured_image_pil' = Bitmap("camera", camera_img_file_buffer)
              /\ analysis_result' = NoResult
              /\ previous_language' = 0
              /\ ~show_camera')
       /\ UploadDecodes
          => (/\ captured_image_pil' = Bitmap("upload", uploaded_file)
              /\ analysis_result' = NoResult
              /\ previous_language' = 0)]_vars

\* C4 (amended): submitImage with a decodable image leaves the image equal to
\* the submitted bitmap and the analysis result absent; the stored analysis
\* language keeps its value; a camera capture also leaves the camera off.
C4_SubmitResetsResult ==
    [][/\ CaptureDecodes
          => (/\ captured_image_pil' = Bitmap("camera", camera_img_file_buffer)
              /\ analysis_result' = NoResult
              /\ previous_language' = previous_language
              /\ ~show_camera')
       /\ UploadDecodes
          => (/\ captured_image_pil' = Bitmap("upload", uploaded_file)
              /\ analysis_result' = NoResult
              /\ previous_language' = previous_language)]_vars

C4_Witness ==
    /\ pc = "clear"
    /\ obs.event = "upload"
    /\ obs.submitted
    /\ last.ok
    /\ captured_image_pil = Bitmap("upload", uploaded_file)
    /\ analysis_result = NoResult
    /\ previous_language # 0

\* C5: askFollowUp leaves the analysis result and the analysis language as
\* they were, whether the ask collaborator answers or fails.
C5_FollowUpKeepsAnalysis ==
    [][pc = "followup"
       => (/\ analysis_result' = analysis_result
           /\ previous_language' = previous_language)]_vars

C5_Witness ==
    /\ pc = "done"
    /\ obs.asks = 1
    /\ obs.answer = "failed"
    /\ analysis_result.kind = "text"
    /\ obs.asked = analysis_result
\* C6: when the uploader holds a file and the camera holds a capture in the
\* same refresh cycle, the image at the end of the cycle (reruns included) is
\* never the camera capture, and it is the uploaded image when that decodes.
C6_UploadWinsOverCamera ==
    (pc = "idle" /\ obs.both)
       => (/\ captured_image_pil.src # "camera"
           /\ DecodableFile(uploaded_file)
                 => captured_image_pil = Bitmap("upload", uploaded_file))

C6_Witness ==
    /\ pc = "idle"
    /\ obs.both
    /\ camera_img_file_buffer # 0
    /\ captured_image_pil = Bitmap("upload", uploaded_file)

\* C7: after submitImage replaced the image, ensureAnalysis calls analyze with
\* the new image and the selected language, also when that language is the one
\* the previous image was analysed for; a text it stores is one for the new image.
C7_NewImageIsAnalysed ==
    [][(/\ pc = "analysis"
        /\ captured_image_pil # NoImage
        /\ obs.submitted)
       => (/\ obs'.calls = obs.calls + 1
           /\ obs'.analyzed = [img |-> captured_image_pil, lang |-> language_option]
           /\ (analysis_result'.kind = "text"
                 => analysis_result'.img = captured_image_pil))]_vars

C7_Witness ==
    /\ pc = "followup"
    /\ obs.event = "photo"
    /\ obs.submitted
    /\ last.ok
    /\ last.ensured = language_option
    /\ obs.calls = 1
    /\ obs.analyzed = [img |-> captured_image_pil, lang |-> language_option]
    /\ analysis_result = Text(captured_image_pil, language_option)

\* C8: toggleCamera that turns the camera off leaves the image and the
\* analysis result absent (no capture can have occurred while it was on: a
\* capture that decodes turns it off); toggleCamera that turns it on changes
\* neither.
C8_ToggleOffResetsInput ==
    [][(pc = "toggle" /\ button = "camera")
       => IF show_camera
          THEN /\ ~show_camera'
               /\ captured_image_pil' = NoImage
               /\ analysis_result' = NoResult
          ELSE /\ show_camera'
               /\ captured_image_pil' = captured_image_pil
               /\ analysis_result' = analysis_result]_vars

C8_Witness ==
    /\ pc = "camera"
    /\ button = "camera"
    /\ obs.reruns = 0
    /\ last.ok
    /\ ~show_camera
    /\ captured_image_pil = NoImage
    /\ analysis_result = NoResult

\* C9 (as stated): the analysis result is non-null only if it is the text of
\* a successful analyze call made with the stored analysis language.
C9_ResultIsTextForStoredLanguage ==
    analysis_result # NoResult
       => (analysis_result.kind = "text"
           /\ analysis_result.lang = previous_language)

\* C9 (amended): the analysis result is non-null only if it is the failure
\* placeholder or the text of a successful analyze call made with the stored
\* analysis language.
C9_TextIsForStoredLanguage ==
    analysis_result # NoResult
       => \/ analysis_result = Placeholder
          \/ (analysis_result.kind = "text"
              /\ analysis_result.lang = previous_language)

C9_Witness ==
    /\ pc = "idle"
    /\ last.ok
    /\ obs.event = "language"
    /\ obs.calls = 1
    /\ analysis_result.kind = "text"
    /\ analysis_result.lang = previous_language
    /\ previous_language = language_option

\* C10: at the end of a refresh cycle, if the image is absent then the analysis
\* result is absent, also when an upload or a capture failed to decode.
C10_NoImageNoResult ==
    (pc = "idle" /\ captured_image_pil = NoImage) => analysis_result = NoResult
\* the analysis block is about to call analyze in this step
AnalyzeCalled ==
    /\ pc = "analysis"
    /\ obs'.calls = obs.calls + 1
\* ... and the call fails
AnalyzeFails ==
    /\ AnalyzeCalled
    /\ obs'.outcome = "failed"

\* C11: if analyze fails while the analysis result is absent (first attempt
\* for the image), the analysis result is still absent afterwards.
C11_FirstFailureLeavesResultAbsent ==
    [][(AnalyzeFails /\ analysis_result = NoResult)
       => analysis_result' = NoResult]_vars

\* C12: when an analyze call fails, the analysis result keeps its value unless
\* the requested language differs from the stored analysis language; in that
\* case, and only then, it becomes the failure placeholder.  The stored
\* analysis language is not changed by a failed analysis.
C12_FailurePolicy ==
    [][AnalyzeFails
       => (/\ previous_language' = previous_language
           /\ analysis_result' =
                IF previous_language # language_option
                THEN Placeholder ELSE analysis_result)]_vars

C12_Witness ==
    /\ pc = "followup"
    /\ obs.outcome = "failed"
    /\ obs.event = "language"
    /\ ~obs.submitted
    /\ last.ok
    /\ analysis_result = Placeholder
    /\ previous_language # 0
    /\ previous_language # language_option
\* C13: a refresh cycle whose only event is a follow-up question, on a session
\* that holds an image and its analysis text for the selected language (the
\* image from the upload or from the camera), calls ask but not analyze and
\* ends with an analysis text stored.
C13_FollowUpCycleDoesNotReanalyse ==
    (pc = "idle" /\ obs.event = "answer_button" /\ last.ok)
       => (/\ obs.asks = 1
           /\ obs.calls = 0
           /\ analysis_result.kind = "text")

\* C14: ask is called only when the image is set, the analysis result is set
\* and the question is not empty; a follow-up with an empty question makes no
\* collaborator call and changes no session field.
C14_AskNeedsResultAndQuestion ==
    [][/\ (pc = "followup" /\ obs'.asks # obs.asks)
          => (/\ captured_image_pil # NoImage
              /\ analysis_result # NoResult
              /\ user_q # 0)
       /\ (pc = "followup" /\ user_q = 0)
          => (/\ obs'.asks = obs.asks
              /\ obs'.calls = obs.calls
              /\ session' = session)]_vars

C14_Witness ==
    /\ pc = "done"
    /\ obs.event = "edit_answer_button"
    /\ button = "answer"
    /\ user_q = 0
    /\ captured_image_pil # NoImage
    /\ analysis_result.kind = "text"
    /\ obs.asks = 0
\* C15: a failed analysis is not cached: after ensureAnalysis(L) failed, the
\* next ensureAnalysis(L) calls analyze again, and if that call succeeds the
\* returned text is stored and the stored analysis language is L.
C15_FailureIsRetried ==
    [][(/\ pc = "analysis"
        /\ captured_image_pil # NoImage
        /\ last.outcome = "failed"
        /\ last.ensured = language_option)
       => (/\ obs'.calls = obs.calls + 1
           /\ obs'.analyzed = [img |-> captured_image_pil, lang |-> language_option]
           /\ (obs'.outcome = "text" =>
                 /\ analysis_result' = Text(captured_image_pil, language_option)
                 /\ previous_language' = language_option))]_vars

C15_Witness ==
    /\ pc = "followup"
    /\ last.outcome = "failed"
    /\ last.ensured = language_option
    /\ ~obs.submitted
    /\ obs.calls = 1
    /\ obs.outcome = "text"
    /\ analysis_result = Text(captured_image_pil, language_option)
    /\ previous_language = language_option

\* C16: whenever ensureAnalysis surfaces a result without calling analyze
\* (cache hit), the result is the text of a successful analyze call on the
\* current image with the current language, never the failure placeholder.
C16_CacheHitServesCurrentText ==
    (obs.ensured # 0 /\ obs.calls = 0)
       => analysis_result = Text(captured_image_pil, language_option)

\* C17: the context passed to ask is the text of a successful analyze call on
\* the current image: not the failure placeholder, not a previous image's text.
C17_AskContextIsCurrentText ==
    obs.asks > 0
       => (/\ obs.asked.kind = "text"
           /\ obs.asked.img = captured_image_pil)

\* C18: every refresh cycle terminates: an event causes at most one rerun
\* (after a capture or after the clear button), the rerun causes no further
\* rerun, and the execution reaches its end.
C18_CycleTerminates ==
    /\ [](obs.reruns <= 1)
    /\ [](pc # "idle" => <>(pc = "idle"))

C18_Witness ==
    /\ pc = "idle"
    /\ obs.reruns = 1
    /\ obs.cleared
    /\ uploaded_file # 0
    /\ captured_image_pil = Bitmap("upload", uploaded_file)
====
